---- MODULE Spec2Model ----
(***************************************************************************)
(* A model of NHLPredictorAgent (src/main.py): the three SQLite tables     *)
(* teams, games and predictions as seen through the agent's one            *)
(* connection, the rows of predictions that its last commit wrote, the     *)
(* agent's dict teams_cache, and the agent's methods as atomic actions     *)
(* (the program is single-threaded and synchronous).                       *)
(*                                                                         *)
(* Numbers that the code keeps as Python floats are kept here as exact     *)
(* fractions <<numerator, denominator>>.                                   *)
(***************************************************************************)
EXTENDS Integers, Sequences, FiniteSets, TLC

VARIABLES teams, games, predictions, pred_seq, teams_cache

\* a call of a method that reads and computes only: the arguments of
\* _calculate_team_score, and the value the last such call returned
VARIABLES score_call, result

reads == <<score_call, result>>

\* the rows of predictions that the last commit of the connection wrote to
\* the database file; predictions is what the connection itself sees, its
\* statements since that commit included
VARIABLES committed

vars == <<teams, games, predictions, pred_seq, teams_cache, reads, committed>>

(***************************************************************************)
(* Bounds of the model.                                                    *)
(***************************************************************************)
MaxTeam == 2          \* team ids the feed uses: 1..MaxTeam
MaxGame == 2          \* game ids the feed uses: 1..MaxGame
MaxScore == 1         \* goals a side scores in the feed: 0..MaxScore
MaxDate == 1          \* calendar dates: 1..MaxDate
MaxPredId == 2        \* prediction ids AUTOINCREMENT may hand out

(***************************************************************************)
(* Python's None / SQL NULL: in an integer column, and in a text column.   *)
(***************************************************************************)
NULL == -1
NoneText == "None"

TeamIds == 1..MaxTeam
FeedGameIds == 1..MaxGame
Dates == 1..MaxDate
Scores == 0..MaxScore
MaxGameRows == MaxGame   \* rows the games table may hold in the model

(***************************************************************************)
(* Exact fractions standing for the code's floats.                         *)
(***************************************************************************)
RECURSIVE GCD(_, _)
GCD(a, b) == IF b = 0 THEN a ELSE GCD(b, a % b)

Abs(n) == IF n < 0 THEN -n ELSE n

Frac(n, d) ==
    LET g == GCD(Abs(n), Abs(d))
        s == IF d < 0 THEN -1 ELSE 1
    IN  <<(s * n) \div g, (s * d) \div g>>

RAdd(a, b) == Frac(a[1] * b[2] + b[1] * a[2], a[2] * b[2])
RSub(a, b) == Frac(a[1] * b[2] - b[1] * a[2], a[2] * b[2])
RLess(a, b) == a[1] * b[2] < b[1] * a[2]
RMax(a, b) == IF RLess(a, b) THEN b ELSE a
RMin(a, b) == IF RLess(b, a) THEN b ELSE a
RAbs(a) == <<Abs(a[1]), a[2]>>

SetMax(S) == CHOOSE m \in S : \A x \in S : x <= m

(***************************************************************************)
(* The schedule feed.  A game entry of the day's payload carries the keys  *)
(* the code reads; a key the feed leaves out is NULL / NoneText.           *)
(***************************************************************************)
Abbrevs == <<"AAA", "BBB", "CCC", "DDD">>
Places == <<"Anaheim", "Boston", "Calgary", "Dallas">>
Commons == <<"Ducks", "Bruins", "Flames", "Stars">>

FeedTeam(t) ==
    [id |-> t, abbrev |-> Abbrevs[t], place |-> Places[t],
     common |-> Commons[t]]

\* the same team id under another short code and another name
RenamedTeam(t) ==
    [id |-> t, abbrev |-> Abbrevs[t + MaxTeam], place |-> Places[t + MaxTeam],
     common |-> Commons[t + MaxTeam]]

\* a team of the feed without the key "abbrev": .get("abbrev") is None
UnnamedTeam(t) ==
    [id |-> t, abbrev |-> NoneText, place |-> Places[t], common |-> Commons[t]]

\* game.get("homeTeam", {}) of an entry without the key: every .get is None
NoTeam ==
    [id |-> NULL, abbrev |-> NoneText, place |-> NoneText, common |-> NoneText]

GameEntry(id, type, h, a, raw, hs, as, pt) ==
    [id |-> id, gameType |-> type, homeTeam |-> h, awayTeam |-> a,
     gameState |-> raw, homeScore |-> hs, awayScore |-> as,
     lastPeriodType |-> pt]

(***************************************************************************)
(* fetch_games_by_date, lines 148-248: one game entry of the payload.      *)
(***************************************************************************)
\* f"{place} {common}".strip(), with the defaults of the two .get calls
TeamName(t) ==
    LET place == IF t.place = NoneText THEN "Unknown" ELSE t.place
        common == IF t.common = NoneText THEN "" ELSE t.common
    IN  SelectSeq(<<place, common>>, LAMBDA w : w # "")

\* INTEGER PRIMARY KEY given NULL: one more than the largest key in the table
NextRowId(keys) == IF keys = {} THEN 1 ELSE SetMax(keys) + 1

\* InsertOrIgnoreTeam as INSERT OR REPLACE
InsertOrIgnoreTeam_Replace(tt, t) ==
    LET key == IF t.id = NULL THEN NextRowId(DOMAIN tt) ELSE t.id
    IN  IF t.abbrev = NoneText
        THEN tt
        ELSE [k \in DOMAIN tt \cup {key} |->
                IF k = key
                THEN [team_name |-> TeamName(t), abbreviation |-> t.abbrev,
                      conference |-> NoneText, division |-> NoneText]
                ELSE tt[k]]

\* INSERT OR IGNORE INTO teams (team_id, team_name, abbreviation)
InsertOrIgnoreTeam(tt, t) ==
    LET key == IF t.id = NULL THEN NextRowId(DOMAIN tt) ELSE t.id
    IN  IF t.abbrev = NoneText \/ key \in DOMAIN tt
        THEN tt
        ELSE [k \in DOMAIN tt \cup {key} |->
                IF k = key
                THEN [team_name |-> TeamName(t), abbreviation |-> t.abbrev,
                      conference |-> NoneText, division |-> NoneText]
                ELSE tt[k]]

GameState(raw) ==
    IF raw = NoneText \/ raw = "FUT" THEN "scheduled"
    ELSE IF raw = "LIVE" THEN "live"
    ELSE IF raw \in {"FINAL", "OFF"} THEN "final"
    ELSE "scheduled"

\* WinnerId without the test of the state
WinnerId_AnyState(state, home_id, away_id, home_score, away_score) ==
    IF home_score # NULL /\ away_score # NULL
    THEN IF home_score > away_score THEN home_id ELSE away_id
    ELSE NULL

WinnerId(state, home_id, away_id, home_score, away_score) ==
    IF state = "final" /\ home_score # NULL /\ away_score # NULL
    THEN IF home_score > away_score THEN home_id ELSE away_id
    ELSE NULL

WinType(e) == IF e.lastPeriodType = NoneText THEN "REG" ELSE e.lastPeriodType

GameRow(date, e) ==
    LET state == GameState(e.gameState)
    IN  [game_date |-> date,
         home_team_id |-> e.homeTeam.id,
         away_team_id |-> e.awayTeam.id,
         home_score |-> e.homeScore,
         away_score |-> e.awayScore,
         game_state |-> state,
         winner_id |-> WinnerId(state, e.homeTeam.id, e.awayTeam.id,
                                e.homeScore, e.awayScore),
         win_type |-> WinType(e)]

\* INSERT OR REPLACE INTO games: fails on a NULL in a NOT NULL column
GameInsertFails(row) == row.home_team_id = NULL \/ row.away_team_id = NULL

InsertOrReplaceGame(gg, id, row) ==
    LET key == IF id = NULL THEN NextRowId(DOMAIN gg) ELSE id
    IN  [k \in DOMAIN gg \cup {key} |-> IF k = key THEN row ELSE gg[k]]

\* ProcessGame that counts an entry whose INSERT raised
ProcessGame_CountsFailed(st, date, e) ==
    IF e.gameType = 1
    THEN st
    ELSE LET tt == InsertOrIgnoreTeam(InsertOrIgnoreTeam(st.teams, e.homeTeam),
                                      e.awayTeam)
             row == GameRow(date, e)
         IN  IF GameInsertFails(row)
             THEN [st EXCEPT !.teams = tt, !.stored = st.stored + 1]
             ELSE [teams |-> tt,
                   games |-> InsertOrReplaceGame(st.games, e.id, row),
                   stored |-> st.stored + 1]

\* st = [teams, games, stored]: the tables and the games_stored counter
ProcessGame(st, date, e) ==
    IF e.gameType = 1
    THEN st
    ELSE LET tt == InsertOrIgnoreTeam(InsertOrIgnoreTeam(st.teams, e.homeTeam),
                                      e.awayTeam)
             row == GameRow(date, e)
         IN  IF GameInsertFails(row)
             THEN [st EXCEPT !.teams = tt]
             ELSE [teams |-> tt,
                   games |-> InsertOrReplaceGame(st.games, e.id, row),
                   stored |-> st.stored + 1]

RECURSIVE ProcessGames(_, _, _)
ProcessGames(st, date, payload) ==
    IF payload = <<>>
    THEN st
    ELSE ProcessGames(ProcessGame(st, date, Head(payload)), date, Tail(payload))

(***************************************************************************)
(* get_team_stats, lines 368-460.                                          *)
(***************************************************************************)
DigitChars == <<"0", "1", "2", "3", "4", "5", "6", "7", "8", "9">>

\* str(n) of a natural number, as its sequence of characters
RECURSIVE IntToStr(_)
IntToStr(n) ==
    IF n < 10 THEN <<DigitChars[n + 1]>>
    ELSE IntToStr(n \div 10) \o <<DigitChars[(n % 10) + 1]>>

\* f"{wins}-{losses}-{ot_losses}"
FormatRecord(w, l, o) ==
    IntToStr(w) \o <<"-">> \o IntToStr(l) \o <<"-">> \o IntToStr(o)

\* the final games of a team (the SELECT of lines 374-383)
FinalGamesOf(gg, team_id) ==
    {g \in DOMAIN gg : /\ gg[g].game_state = "final"
                        /\ (gg[g].home_team_id = team_id
                            \/ gg[g].away_team_id = team_id)}

RECURSIVE SumOver(_, _)
SumOver(S, f) ==
    IF S = {} THEN 0
    ELSE LET x == CHOOSE y \in S : TRUE IN f[x] + SumOver(S \ {x}, f)

\* lines 400-431: how one final game counts for the team
WasHome(gg, team_id, g) == gg[g].home_team_id = team_id
Won(gg, team_id, g) == gg[g].winner_id = team_id
Lost(gg, team_id, g) == gg[g].winner_id # team_id /\ gg[g].win_type = "REG"
LostInOvertime(gg, team_id, g) ==
    gg[g].winner_id # team_id /\ gg[g].win_type # "REG"
TeamScore(gg, team_id, g) ==
    IF gg[g].home_team_id = team_id THEN gg[g].home_score ELSE gg[g].away_score
OpponentScore(gg, team_id, g) ==
    IF gg[g].home_team_id = team_id THEN gg[g].away_score ELSE gg[g].home_score

\* lines 433-460: the derived stats and the returned dict
DerivedStats(team_id, total_wins, total_losses, overtime_losses, goals_for, goals_against, home_record, away_record) ==
    IF total_wins + total_losses = 0
    THEN [ok |-> FALSE]
    ELSE [ok |-> TRUE,
          team_id |-> team_id,
          total_games |-> total_wins + total_losses,
          wins |-> total_wins,
          losses |-> total_losses,
          overtime_losses |-> overtime_losses,
          points |-> (total_wins * 2) + overtime_losses,
          points_percentage |-> Frac((total_wins * 2) + overtime_losses,
                                     (total_wins + total_losses) * 2),
          goals_for |-> goals_for,
          goals_against |-> goals_against,
          goal_differential |-> goals_for - goals_against,
          goals_per_game |-> Frac(goals_for, total_wins + total_losses),
          goals_against_per_game |-> Frac(goals_against,
                                          total_wins + total_losses),
          overall_record |-> FormatRecord(total_wins, total_losses,
                                          overtime_losses),
          home_record |-> home_record,
          away_record |-> away_record]

\* lines 388-431 over the final games F of the team
TallyStats(gg, team_id, F) ==
    DerivedStats(
        team_id,
        Cardinality({g \in F : Won(gg, team_id, g)}),
        Cardinality({g \in F : Lost(gg, team_id, g)}),
        Cardinality({g \in F : LostInOvertime(gg, team_id, g)}),
        SumOver(F, [g \in F |-> TeamScore(gg, team_id, g)]),
        SumOver(F, [g \in F |-> OpponentScore(gg, team_id, g)]),
        FormatRecord(
            Cardinality({g \in F : Won(gg, team_id, g)
                                   /\ WasHome(gg, team_id, g)}),
            Cardinality({g \in F : Lost(gg, team_id, g)
                                   /\ WasHome(gg, team_id, g)}),
            Cardinality({g \in F : LostInOvertime(gg, team_id, g)
                                   /\ WasHome(gg, team_id, g)})),
        FormatRecord(
            Cardinality({g \in F : Won(gg, team_id, g)
                                   /\ ~WasHome(gg, team_id, g)}),
            Cardinality({g \in F : Lost(gg, team_id, g)
                                   /\ ~WasHome(gg, team_id, g)}),
            Cardinality({g \in F : LostInOvertime(gg, team_id, g)
                                   /\ ~WasHome(gg, team_id, g)})))

\* [ok |-> FALSE]: the call raises (TypeError on a NULL score at lines
\* 410-411, ZeroDivisionError at line 436 when total_games is 0)
GetTeamStats(gg, team_id) ==
    IF \E g \in FinalGamesOf(gg, team_id) :
           gg[g].home_score = NULL \/ gg[g].away_score = NULL
    THEN [ok |-> FALSE]
    ELSE TallyStats(gg, team_id, FinalGamesOf(gg, team_id))

(***************************************************************************)
(* _calculate_team_score, lines 477-501.                                   *)
(***************************************************************************)
\* s.split(sep)
RECURSIVE Split(_, _)
Split(s, sep) ==
    IF \A i \in 1..Len(s) : s[i] # sep
    THEN <<s>>
    ELSE LET i == CHOOSE j \in 1..Len(s) :
                      s[j] = sep /\ \A k \in 1..(j - 1) : s[k] # sep
         IN  <<SubSeq(s, 1, i - 1)>> \o Split(SubSeq(s, i + 1, Len(s)), sep)

DigitVal(c) == (CHOOSE d \in 1..10 : DigitChars[d] = c) - 1

\* int(s) of a non-empty sequence of digits
RECURSIVE StrToInt(_)
StrToInt(s) ==
    IF Len(s) = 1 THEN DigitVal(s[1])
    ELSE StrToInt(SubSeq(s, 1, Len(s) - 1)) * 10 + DigitVal(s[Len(s)])

\* Clamp that lets every value through
Clamp_Unbounded(lo, hi, x) == x

Clamp(lo, hi, x) == RMax(lo, RMin(hi, x))

\* lines 490-492: the points percentage of a home or away record
RecordPointsPct(wins, losses, ot_losses) ==
    IF wins + losses + ot_losses > 0
    THEN Frac((wins * 2) + ot_losses, (wins + losses + ot_losses) * 2)
    ELSE Frac(0, 1)

\* lines 489-492 on the parts of record.split("-")
VenuePointsPct(parts) ==
    RecordPointsPct(StrToInt(parts[1]), StrToInt(parts[2]), StrToInt(parts[3]))

CalculateTeamScore(team_stats, is_home) ==
    RAdd(RAdd(IF is_home
              THEN RAdd(team_stats.points_percentage, Frac(8, 100))
              ELSE team_stats.points_percentage,
              Clamp(Frac(-15, 100), Frac(15, 100),
                    Frac(team_stats.goal_differential, 100))),
         Clamp(Frac(-10, 100), Frac(10, 100),
               RSub(VenuePointsPct(Split(IF is_home THEN team_stats.home_record
                                         ELSE team_stats.away_record, "-")),
                    team_stats.points_percentage)))

(***************************************************************************)
(* Return values: [kind, val] with kind "none" (None), "int", "dict" or    *)
(* "raise" (an exception leaves the method).                               *)
(***************************************************************************)
RetNone == [kind |-> "none", val |-> 0]
RetRaise == [kind |-> "raise", val |-> 0]
RetInt(n) == [kind |-> "int", val |-> n]
RetDict(d) == [kind |-> "dict", val |-> d]
RetFloat(x) == [kind |-> "float", val |-> x]

\* a clock reading: <<date, time of the day>>; the model's clock reads one
\* time a day
Clock == Dates \X {"12:00:00"}
FormatDate(now) == now[1]              \* strftime("%Y-%m-%d")
FormatStamp(now) == now                \* strftime("%Y-%m-%d %H:%M:%S")
Epoch == CHOOSE c \in Clock : TRUE

(***************************************************************************)
(* make_prediction, lines 503-567.  Yields the predictions table, the      *)
(* AUTOINCREMENT counter and the return value.                             *)
(***************************************************************************)
PredictionsOf(pp, game_id) == {p \in pp : p.game_id = game_id}

\* lines 547-567: the INSERT, the commit and the returned dict
StorePrediction(game, kept, seq, game_id, now, predicted_winner, confidence) ==
    [predictions |-> kept \cup {[prediction_id |-> seq + 1,
                                 game_id |-> game_id,
                                 predicted_winner_id |-> predicted_winner,
                                 confidence |-> confidence,
                                 prediction_date |-> FormatStamp(now),
                                 correct |-> NULL]},
     pred_seq |-> seq + 1,
     ret |-> RetDict([game_id |-> game_id,
                      home_team |-> game.home_team_id,
                      away_team |-> game.away_team_id,
                      predicted_winner |-> predicted_winner,
                      confidence |-> confidence])]

\* PickWinner that picks the side with the lower score
PickWinner_Lower(game, kept, seq, game_id, now, home_score, away_score) ==
    StorePrediction(game, kept, seq, game_id, now,
                    IF RLess(away_score, home_score) THEN game.away_team_id
                    ELSE game.home_team_id,
                    RAbs(RSub(home_score, away_score)))

\* lines 540-545: the pick and its confidence
PickWinner(game, kept, seq, game_id, now, home_score, away_score) ==
    StorePrediction(game, kept, seq, game_id, now,
                    IF RLess(away_score, home_score) THEN game.home_team_id
                    ELSE game.away_team_id,
                    RAbs(RSub(home_score, away_score)))

\* lines 534-538: an exception of get_team_stats leaves the method after
\* the DELETE of line 531
ScoreTeams(game, kept, seq, game_id, now, home_stats, away_stats) ==
    IF ~home_stats.ok \/ ~away_stats.ok
    THEN [predictions |-> kept, pred_seq |-> seq, ret |-> RetRaise]
    ELSE PickWinner(game, kept, seq, game_id, now,
                    CalculateTeamScore(home_stats, TRUE),
                    CalculateTeamScore(away_stats, FALSE))

\* MakePrediction without the test of the game's state
MakePrediction_AnyState(gg, pp, seq, game_id, force, now) ==
    IF game_id \notin DOMAIN gg
    THEN [predictions |-> pp, pred_seq |-> seq, ret |-> RetRaise]
    ELSE IF PredictionsOf(pp, game_id) # {} /\ ~force
    THEN [predictions |-> pp, pred_seq |-> seq, ret |-> RetNone]
    ELSE ScoreTeams(gg[game_id], pp \ PredictionsOf(pp, game_id), seq, game_id,
                    now,
                    GetTeamStats(gg, gg[game_id].home_team_id),
                    GetTeamStats(gg, gg[game_id].away_team_id))

\* MakePrediction that overwrites whether or not force is set
MakePrediction_AlwaysForce(gg, pp, seq, game_id, force, now) ==
    IF game_id \notin DOMAIN gg
    THEN [predictions |-> pp, pred_seq |-> seq, ret |-> RetRaise]
    ELSE IF gg[game_id].game_state # "scheduled"
    THEN [predictions |-> pp, pred_seq |-> seq, ret |-> RetNone]
    ELSE ScoreTeams(gg[game_id], pp \ PredictionsOf(pp, game_id), seq, game_id,
                    now,
                    GetTeamStats(gg, gg[game_id].home_team_id),
                    GetTeamStats(gg, gg[game_id].away_team_id))

\* MakePrediction without the DELETE of line 531
MakePrediction_NoDelete(gg, pp, seq, game_id, force, now) ==
    IF game_id \notin DOMAIN gg
    THEN [predictions |-> pp, pred_seq |-> seq, ret |-> RetRaise]
    ELSE IF gg[game_id].game_state # "scheduled"
    THEN [predictions |-> pp, pred_seq |-> seq, ret |-> RetNone]
    ELSE IF PredictionsOf(pp, game_id) # {} /\ ~force
    THEN [predictions |-> pp, pred_seq |-> seq, ret |-> RetNone]
    ELSE ScoreTeams(gg[game_id], pp, seq, game_id, now,
                    GetTeamStats(gg, gg[game_id].home_team_id),
                    GetTeamStats(gg, gg[game_id].away_team_id))

MakePrediction(gg, pp, seq, game_id, force, now) ==
    IF game_id \notin DOMAIN gg
    THEN [predictions |-> pp, pred_seq |-> seq, ret |-> RetRaise]
    ELSE IF gg[game_id].game_state # "scheduled"
    THEN [predictions |-> pp, pred_seq |-> seq, ret |-> RetNone]
    ELSE IF PredictionsOf(pp, game_id) # {} /\ ~force
    THEN [predictions |-> pp, pred_seq |-> seq, ret |-> RetNone]
    ELSE ScoreTeams(gg[game_id], pp \ PredictionsOf(pp, game_id), seq, game_id,
                    now,
                    GetTeamStats(gg, gg[game_id].home_team_id),
                    GetTeamStats(gg, gg[game_id].away_team_id))

(***************************************************************************)
(* clear_predictions, lines 569-586.  game_id 0 or NULL is falsy.          *)
(***************************************************************************)
ClearPredictionsOf(pp, game_id) ==
    IF game_id # NULL /\ game_id # 0
    THEN pp \ PredictionsOf(pp, game_id)
    ELSE {}

(***************************************************************************)
(* predict_todays_games, lines 592-663.  The scheduled games of today are  *)
(* visited in key order; an exception of make_prediction ends the loop.    *)
(* st = [predictions, pred_seq, made, skipped, raised]                     *)
(***************************************************************************)
TodaysGames(gg, date) ==
    {g \in DOMAIN gg : gg[g].game_date = date /\ gg[g].game_state = "scheduled"}

\* lines 615-656: the counters after one call of make_prediction
Tally(st, r) ==
    [predictions |-> r.predictions,
     pred_seq |-> r.pred_seq,
     made |-> st.made + (IF r.ret.kind = "dict" THEN 1 ELSE 0),
     skipped |-> st.skipped + (IF r.ret.kind = "none" THEN 1 ELSE 0),
     raised |-> r.ret.kind = "raise",
     commits |-> st.commits \/ r.ret.kind = "dict",
     saved |-> IF r.ret.kind = "dict" THEN r.predictions ELSE st.saved]

FirstOf(todo) == CHOOSE x \in todo : \A y \in todo : x <= y

RECURSIVE PredictEach(_, _, _, _, _)
PredictEach(gg, st, todo, force, now) ==
    IF todo = {} \/ st.raised
    THEN st
    ELSE PredictEach(gg,
                     Tally(st, MakePrediction(gg, st.predictions, st.pred_seq,
                                              FirstOf(todo), force, now)),
                     todo \ {FirstOf(todo)}, force, now)

\* what the loop leaves: None is returned, the counts are printed
BatchResult(st) ==
    [predictions |-> st.predictions, pred_seq |-> st.pred_seq,
     ret |-> IF st.raised THEN RetRaise ELSE RetNone,
     made |-> st.made, skipped |-> st.skipped,
     commits |-> st.commits, saved |-> st.saved]

\* commits: some make_prediction of the batch stored a row and committed
\* (line 559); saved: the rows the last such commit wrote
PredictTodaysGames(gg, pp, seq, force, now) ==
    IF TodaysGames(gg, FormatDate(now)) = {}
    THEN [predictions |-> pp, pred_seq |-> seq, ret |-> RetInt(0),
          made |-> 0, skipped |-> 0, commits |-> FALSE, saved |-> pp]
    ELSE BatchResult(PredictEach(gg, [predictions |-> pp, pred_seq |-> seq,
                                      made |-> 0, skipped |-> 0,
                                      raised |-> FALSE, commits |-> FALSE,
                                      saved |-> pp],
                                 TodaysGames(gg, FormatDate(now)), force, now))

(***************************************************************************)
(* evaluate_predictions, lines 665-741.                                    *)
(***************************************************************************)
\* the JOIN without the test of the game's state
PredictionsToEvaluate_AnyState(gg, pp) ==
    {p \in pp : p.game_id \in DOMAIN gg /\ p.correct = NULL}

\* the JOIN without the test of the flag
PredictionsToEvaluate_AnyFlag(gg, pp) ==
    {p \in pp : p.game_id \in DOMAIN gg /\ gg[p.game_id].game_state = "final"}

\* the JOIN of lines 674-688
PredictionsToEvaluate(gg, pp) ==
    {p \in pp : /\ p.game_id \in DOMAIN gg
                /\ p.correct = NULL
                /\ gg[p.game_id].game_state = "final"}

\* IsCorrect against the home team in place of the winner
IsCorrect_HomeTeam(gg, p) ==
    IF p.predicted_winner_id = gg[p.game_id].home_team_id THEN 1 ELSE 0

\* lines 704-709
IsCorrect(gg, p) ==
    IF p.predicted_winner_id = gg[p.game_id].winner_id THEN 1 ELSE 0

\* lines 726-741: the summary over the evaluated rows
Summary(evaluated_count, correct_count) ==
    RetDict([evaluated |-> evaluated_count,
             correct |-> correct_count,
             wrong |-> evaluated_count - correct_count,
             accuracy |-> Frac(correct_count * 100, evaluated_count)])

\* lines 699-724: the UPDATE of each due row, and the commit
UpdateDue(gg, pp, due) ==
    [predictions |-> {IF p \in due THEN [p EXCEPT !.correct = IsCorrect(gg, p)]
                      ELSE p : p \in pp},
     ret |-> Summary(Cardinality(due),
                     Cardinality({p \in due : IsCorrect(gg, p) = 1}))]

EvaluatePredictions(gg, pp) ==
    IF PredictionsToEvaluate(gg, pp) = {}
    THEN [predictions |-> pp, ret |-> RetNone]
    ELSE UpdateDue(gg, pp, PredictionsToEvaluate(gg, pp))

(***************************************************************************)
(* show_prediction_stats, lines 744-831.                                   *)
(***************************************************************************)
\* lines 747-750: SELECT confidence, correct WHERE correct IS NOT NULL
EvaluatedPredictions(pp) == {p \in pp : p.correct # NULL}

\* BucketOf with the bounds on the other side
BucketOf_Inclusive(confidence) ==
    IF ~RLess(Frac(30, 100), confidence) THEN "low"
    ELSE IF ~RLess(Frac(60, 100), confidence) THEN "medium"
    ELSE "high"

\* lines 781-792: the if / elif / else on the confidence
BucketOf(confidence) ==
    IF RLess(confidence, Frac(30, 100)) THEN "low"
    ELSE IF RLess(confidence, Frac(60, 100)) THEN "medium"
    ELSE "high"

\* lines 769-792: the two counters of a bucket
BucketCounts(rows, bucket) ==
    [total |-> Cardinality({p \in rows : BucketOf(p.confidence) = bucket}),
     correct |-> Cardinality({p \in rows : /\ BucketOf(p.confidence) = bucket
                                           /\ p.correct = 1})]

\* lines 757-760 and 821-831: the overall numbers and the returned dict
StatsReport(rows) ==
    RetDict([total |-> Cardinality(rows),
             correct |-> Cardinality({p \in rows : p.correct = 1}),
             wrong |-> Cardinality(rows)
                       - Cardinality({p \in rows : p.correct = 1}),
             accuracy |-> Frac(Cardinality({p \in rows : p.correct = 1}) * 100,
                               Cardinality(rows)),
             by_confidence |-> [low |-> BucketCounts(rows, "low"),
                                medium |-> BucketCounts(rows, "medium"),
                                high |-> BucketCounts(rows, "high")]])

ShowPredictionStats(pp) ==
    IF EvaluatedPredictions(pp) = {}
    THEN RetNone
    ELSE StatsReport(EvaluatedPredictions(pp))

(***************************************************************************)
(* fetch_games_by_date, lines 101-253.  resp is what requests.get gives:   *)
(* a timeout, a non-200 status, another RequestException, or a document.   *)
(* The RequestException handler of lines 130-131 does not return, so line  *)
(* 133 reads the unassigned local data and the call raises.                *)
(***************************************************************************)
\* lines 141-253: the loop over the day's games, the commit and the count
DayResult(st) ==
    [teams |-> st.teams, games |-> st.games, ret |-> RetInt(st.stored),
     commits |-> TRUE]

StoreDay(tt, gg, date, todays_games) ==
    DayResult(ProcessGames([teams |-> tt, games |-> gg, stored |-> 0], date,
                           todays_games))

\* lines 133-139: the days of the week that carry the date
TodaysData(week, date) == SelectSeq(week, LAMBDA day : day.date = date)

FetchOn(tt, gg, date, resp) ==
    IF resp.kind \in {"timeout", "status"}
    THEN [teams |-> tt, games |-> gg, ret |-> RetNone, commits |-> FALSE]
    ELSE IF resp.kind = "neterror"
    THEN [teams |-> tt, games |-> gg, ret |-> RetRaise, commits |-> FALSE]
    ELSE IF TodaysData(resp.gameWeek, date) = <<>>
    THEN [teams |-> tt, games |-> gg, ret |-> RetInt(0), commits |-> FALSE]
    ELSE StoreDay(tt, gg, date, TodaysData(resp.gameWeek, date)[1].games)

FetchGamesByDate(tt, gg, date_arg, now, resp) ==
    FetchOn(tt, gg, IF date_arg = NULL THEN FormatDate(now) ELSE date_arg, resp)

(***************************************************************************)
(* enrich_teams_with_standings, lines 255-366.  resp is what requests.get  *)
(* gives: a timeout, a non-200 status, another RequestException, a         *)
(* document without the key "standings", or a document with the list.  An  *)
(* entry of the list is a dict of the keys the code reads (a key the feed  *)
(* leaves out is NULL / NoneText), or something that is not a dict.        *)
(***************************************************************************)
StandingsEntry(abbrev, conference, division, wins, losses, ot_losses, points) ==
    [shape |-> "dict", teamAbbrev |-> abbrev, conferenceName |-> conference,
     divisionName |-> division, wins |-> wins, losses |-> losses,
     otLosses |-> ot_losses, points |-> points]

\* an entry that is a string: team.get raises AttributeError
NotADict == [shape |-> "text"]

\* dict.get(key, default)
GetOr(value, none, default) == IF value = none THEN default ELSE value

\* UpdateTeams without the WHERE
UpdateTeams_NoWhere(tt, abbrev, conference, division) ==
    [k \in DOMAIN tt |->
        [tt[k] EXCEPT !.conference = conference, !.division = division]]

\* lines 314-321: UPDATE teams SET conference, division WHERE abbreviation
UpdateTeams(tt, abbrev, conference, division) ==
    [k \in DOMAIN tt |->
        IF tt[k].abbreviation = abbrev
        THEN [tt[k] EXCEPT !.conference = conference, !.division = division]
        ELSE tt[k]]

\* lines 326-336: SELECT team_id, team_name WHERE abbreviation, fetchone
TeamsNamed(tt, abbrev) == {k \in DOMAIN tt : tt[k].abbreviation = abbrev}

SelectTeam(tt, abbrev) ==
    IF TeamsNamed(tt, abbrev) = {}
    THEN [id |-> NULL, name |-> <<"Unknown">>]
    ELSE [id |-> FirstOf(TeamsNamed(tt, abbrev)),
          name |-> tt[FirstOf(TeamsNamed(tt, abbrev))].team_name]

\* lines 338-354: the entry of the cache after the update with the standings
MergedEntry(known, abbrev, conference, division, e) ==
    [id |-> known.id, name |-> known.name, abbrev |-> abbrev,
     conference |-> conference, division |-> division,
     wins |-> GetOr(e.wins, NULL, 0), losses |-> GetOr(e.losses, NULL, 0),
     ot_losses |-> GetOr(e.otLosses, NULL, 0),
     points |-> GetOr(e.points, NULL, 0)]

\* lines 323-354: the cache keeps the id and the name it has for the code
UpdateCache(tt, cache, abbrev, conference, division, e) ==
    [a \in DOMAIN cache \cup {abbrev} |->
        IF a = abbrev
        THEN MergedEntry(IF abbrev \in DOMAIN cache THEN cache[abbrev]
                         ELSE SelectTeam(tt, abbrev),
                         abbrev, conference, division, e)
        ELSE cache[a]]

\* lines 305-354 for a dict entry with its short code resolved
EnrichAs(st, abbrev, conference, division, e) ==
    [teams |-> UpdateTeams(st.teams, abbrev, conference, division),
     cache |-> UpdateCache(st.teams, st.cache, abbrev, conference, division, e)]

\* lines 298-360: one entry of the list; st = [teams, cache]
EnrichTeam(st, e) ==
    IF e.shape # "dict"
    THEN st
    ELSE EnrichAs(st, GetOr(e.teamAbbrev, NoneText, "UNK"),
                  GetOr(e.conferenceName, NoneText, "Unknown"),
                  GetOr(e.divisionName, NoneText, "Unknown"), e)

RECURSIVE EnrichTeams(_, _)
EnrichTeams(st, teams_data) ==
    IF teams_data = <<>>
    THEN st
    ELSE EnrichTeams(EnrichTeam(st, Head(teams_data)), Tail(teams_data))

\* lines 362-366: the commit and the returned cache
EnrichResult(st) ==
    [teams |-> st.teams, teams_cache |-> st.cache, ret |-> RetDict(st.cache)]

EnrichTeamsWithStandings(tt, cache, resp) ==
    IF resp.kind # "ok"
    THEN [teams |-> tt, teams_cache |-> cache, ret |-> RetNone]
    ELSE EnrichResult(EnrichTeams([teams |-> tt, cache |-> cache],
                                  resp.standings))

(***************************************************************************)
(* The inputs of the model.                                                *)
(***************************************************************************)
Failure(kind) == [kind |-> kind, gameWeek |-> <<>>]
Document(week) == [kind |-> "ok", gameWeek |-> week]
Day(date, payload) == [date |-> date, games |-> payload]

\* the feed keeps the two teams of a game id: home and away by id
Matchup(g) == <<((g - 1) % MaxTeam) + 1, (g % MaxTeam) + 1>>

Entry(id, m, raw, sc, pt) ==
    GameEntry(id, 2, FeedTeam(m[1]), FeedTeam(m[2]), raw, sc[1], sc[2], pt)

\* both scores, or none before the game starts
ScorePairs == {<<NULL, NULL>>} \cup (Scores \X Scores)
LiveScorePairs == {<<0, 0>>, <<MaxScore, 0>>}

\* regular-season entries of the games the feed knows
RegularEntries ==
    UNION {
        {Entry(id, Matchup(id), "FUT", <<NULL, NULL>>, NoneText)}
        \cup {Entry(id, Matchup(id), "LIVE", sc, NoneText) :
            sc \in LiveScorePairs}
        \cup {Entry(id, Matchup(id), "FINAL", sc, pt) :
            sc \in ScorePairs, pt \in {NoneText, "OT"}}
        : id \in FeedGameIds}

\* the other spellings of the feed: raw states and period types
SpellingEntries ==
    {Entry(1, Matchup(1), raw, <<NULL, NULL>>, NoneText) :
        raw \in {"PRE", NoneText}}
    \cup {Entry(1, Matchup(1), "OFF", <<MaxScore, 0>>, pt) :
        pt \in {"REG", "SO"}}

\* entries that leave out the game id
AnonymousEntries ==
    {Entry(NULL, Matchup(1), "FUT", <<NULL, NULL>>, NoneText),
     Entry(NULL, Matchup(1), "FINAL", <<MaxScore, 0>>, NoneText)}

PreseasonEntry ==
    GameEntry(1, 1, FeedTeam(1), FeedTeam(2), "FINAL", 1, 0, NoneText)

\* an entry that leaves out its home team: the INSERT of the game raises
MalformedEntry ==
    GameEntry(MaxGame, 2, NoTeam, FeedTeam(2), "FUT", NULL, NULL, NoneText)

Entries ==
    RegularEntries \cup SpellingEntries \cup AnonymousEntries
    \cup {PreseasonEntry, MalformedEntry}

\* a payload of two entries is drawn from these
BatchEntries ==
    {PreseasonEntry,
     MalformedEntry,
     Entry(1, Matchup(1), "FINAL", <<MaxScore, 0>>, NoneText),
     Entry(MaxGame, Matchup(MaxGame), "FUT", <<NULL, NULL>>, NoneText),
     Entry(NULL, Matchup(1), "FUT", <<NULL, NULL>>, NoneText)}

Payloads ==
    {<<>>} \cup {<<e>> : e \in Entries}
    \cup {<<e1, e2>> : e1 \in BatchEntries, e2 \in BatchEntries}

\* what the request for a date can give
Responses(date) ==
    {Failure("timeout"), Failure("status"), Failure("neterror"),
     Document(<<>>)}
    \cup {Document(<<Day(d, <<PreseasonEntry>>)>>) : d \in Dates \ {date}}
    \cup {Document(<<Day(date, p)>>) : p \in Payloads}

\* an entry that gives team 1 another short code and another name
RenamedEntries ==
    {GameEntry(1, 2, RenamedTeam(1), FeedTeam(2), "FUT", NULL, NULL, NoneText)}

\* a finished game whose home team comes without its short code
UnnamedEntries ==
    {GameEntry(MaxGame, 2, UnnamedTeam(1), FeedTeam(2), "FINAL", MaxScore, 0,
               NoneText)}

\* what the request for the standings can give
StandingsFailure(kind) == [kind |-> kind, standings |-> <<>>]
StandingsDocument(teams_data) == [kind |-> "ok", standings |-> teams_data]

FullEntry == StandingsEntry(Abbrevs[1], "Eastern", "Atlantic", 3, 1, 1, 7)
BareEntry == StandingsEntry(NoneText, NoneText, NoneText, NULL, NULL, NULL, NULL)

StandingsResponses ==
    {StandingsFailure(k) : k \in {"timeout", "status", "neterror", "nokey"}}
    \cup {StandingsDocument(d) :
             d \in {<<>>, <<FullEntry>>, <<BareEntry>>, <<NotADict, FullEntry>>}}

\* no call of _calculate_team_score yet
NoCall ==
    [team_stats |-> [ok |-> FALSE], is_home |-> FALSE,
     home |-> <<0, 0, 0>>, away |-> <<0, 0, 0>>]

\* the wins, losses and overtime losses of a team at home and away, and its
\* goals for and against, that the stats dicts of the model are made from
HomeTallies == {0, 1, 12} \X {0, 1, 12} \X {0, 1, 12}
AwayTallies == {0, 2} \X {0, 2} \X {0, 2}
GoalTotals == {0, 10, 15, 30}

\* the dict get_team_stats returns for the tallies
StatsOf(h, a, goals_for, goals_against) ==
    DerivedStats(1, h[1] + a[1], h[2] + a[2], h[3] + a[3], goals_for,
                 goals_against, FormatRecord(h[1], h[2], h[3]),
                 FormatRecord(a[1], a[2], a[3]))

\* the calls _calculate_team_score(team_stats, is_home) of make_prediction;
\* home and away keep the numbers the two records were formatted from
ScoreCalls ==
    {[team_stats |-> StatsOf(h, a, gf, ga), is_home |-> b, home |-> h,
      away |-> a] :
        h \in HomeTallies, a \in AwayTallies, gf \in GoalTotals,
        ga \in GoalTotals, b \in BOOLEAN}

\* the predictions tables show_prediction_stats is called on: up to
\* MaxReportRows rows, one a game, over the confidences around the bounds of
\* the buckets, evaluated or not
MaxReportRows == 3
ReportConfidences ==
    {Frac(n, 100) : n \in {10, 29, 30, 45, 59, 60, 75}}

ReportRow(id, confidence, correct) ==
    [prediction_id |-> id, game_id |-> id, predicted_winner_id |-> 1,
     confidence |-> confidence, prediction_date |-> FormatStamp(Epoch),
     correct |-> correct]

\* no row for a prediction id, or one row: its confidence and its flag
SlotChoices ==
    {{}} \cup {{<<c, f>>} : c \in ReportConfidences, f \in {NULL, 0, 1}}

ReportTables ==
    {UNION {{ReportRow(id, x[1], x[2]) : x \in slots[id]} :
                id \in 1..MaxReportRows} :
        slots \in [1..MaxReportRows -> SlotChoices]}

\* the games of those predictions: played and final
ReportGames ==
    [g \in 1..MaxReportRows |->
        GameRow(1, Entry(g, <<1, 2>>, "FINAL", <<1, 0>>, NoneText))]

ReportTeams ==
    InsertOrIgnoreTeam(InsertOrIgnoreTeam(<<>>, FeedTeam(1)), FeedTeam(2))

\* the same for a call that leaves the date out (date = today)
ResponsesToday(date) ==
    {Failure("timeout"), Document(<<>>)}
    \cup {Document(<<Day(date, <<e>>)>>) : e \in BatchEntries}

(***************************************************************************)
(* The state after __init__, and the calls a client can make.              *)
(***************************************************************************)
Init ==
    /\ teams = <<>>
    /\ games = <<>>
    /\ predictions = {}
    /\ pred_seq = 0
    /\ teams_cache = <<>>
    /\ score_call = NoCall
    /\ result = RetNone
    /\ committed = predictions

FetchGames ==
    \E date \in Dates : \E resp \in Responses(date) :
    \E r \in {FetchGamesByDate(teams, games, date, Epoch, resp)} :
        /\ Cardinality(DOMAIN r.games) <= MaxGameRows
        /\ teams' = r.teams
        /\ games' = r.games
        /\ committed' = (IF r.commits THEN predictions ELSE committed)
        /\ UNCHANGED <<predictions, pred_seq, teams_cache, reads>>

FetchGamesToday ==
    \E now \in Clock : \E resp \in ResponsesToday(FormatDate(now)) :
    \E r \in {FetchGamesByDate(teams, games, NULL, now, resp)} :
        /\ Cardinality(DOMAIN r.games) <= MaxGameRows
        /\ teams' = r.teams
        /\ games' = r.games
        /\ committed' = (IF r.commits THEN predictions ELSE committed)
        /\ UNCHANGED <<predictions, pred_seq, teams_cache, reads>>

\* fetch_games_by_date on a feed that renamed a team
FetchRenamed ==
    \E date \in Dates : \E e \in RenamedEntries :
    \E r \in {FetchGamesByDate(teams, games, date, Epoch,
                                Document(<<Day(date, <<e>>)>>))} :
        /\ Cardinality(DOMAIN r.games) <= MaxGameRows
        /\ teams' = r.teams
        /\ games' = r.games
        /\ committed' = (IF r.commits THEN predictions ELSE committed)
        /\ UNCHANGED <<predictions, pred_seq, teams_cache, reads>>

\* fetch_games_by_date on a feed that leaves out a team's short code
FetchUnnamed ==
    \E date \in Dates : \E e \in UnnamedEntries :
    \E r \in {FetchGamesByDate(teams, games, date, Epoch,
                                Document(<<Day(date, <<e>>)>>))} :
        /\ Cardinality(DOMAIN r.games) <= MaxGameRows
        /\ teams' = r.teams
        /\ games' = r.games
        /\ committed' = (IF r.commits THEN predictions ELSE committed)
        /\ UNCHANGED <<predictions, pred_seq, teams_cache, reads>>

Enrich ==
    \E resp \in StandingsResponses :
    \E r \in {EnrichTeamsWithStandings(teams, teams_cache, resp)} :
        /\ teams' = r.teams
        /\ teams_cache' = r.teams_cache
        /\ committed' = (IF r.ret.kind = "dict" THEN predictions ELSE committed)
        /\ UNCHANGED <<games, predictions, pred_seq, reads>>

Predict ==
    \E game_id \in 1..(MaxGame + 1), force \in BOOLEAN, now \in Clock :
    \E r \in {MakePrediction(games, predictions, pred_seq, game_id, force, now)} :
        /\ r.pred_seq <= MaxPredId
        /\ predictions' = r.predictions
        /\ pred_seq' = r.pred_seq
        /\ committed' = (IF r.ret.kind = "dict" THEN r.predictions
                         ELSE committed)
        /\ UNCHANGED <<teams, games, teams_cache, reads>>

PredictToday ==
    \E force \in BOOLEAN, now \in Clock :
    \E r \in {PredictTodaysGames(games, predictions, pred_seq, force, now)} :
        /\ r.pred_seq <= MaxPredId
        /\ predictions' = r.predictions
        /\ pred_seq' = r.pred_seq
        /\ committed' = (IF r.commits THEN r.saved ELSE committed)
        /\ UNCHANGED <<teams, games, teams_cache, reads>>

Evaluate ==
    \E r \in {EvaluatePredictions(games, predictions)} :
        /\ predictions' = r.predictions
        /\ committed' = (IF r.ret.kind = "dict" THEN r.predictions
                         ELSE committed)
        /\ UNCHANGED <<teams, games, pred_seq, teams_cache, reads>>

ClearPredictions ==
    \E game_id \in {NULL} \cup 0..(MaxGame + 1) :
        /\ predictions' = ClearPredictionsOf(predictions, game_id)
        /\ committed' = predictions'
        /\ UNCHANGED <<teams, games, pred_seq, teams_cache, reads>>

Next ==
    \/ FetchGames
    \/ FetchGamesToday
    \/ Predict
    \/ PredictToday
    \/ Evaluate
    \/ ClearPredictions

Spec == Init /\ [][Next]_vars

(***************************************************************************)
(* _calculate_team_score on the stats dicts get_team_stats can return.     *)
(***************************************************************************)
InitScore ==
    /\ teams = <<>>
    /\ games = <<>>
    /\ predictions = {}
    /\ pred_seq = 0
    /\ teams_cache = <<>>
    /\ score_call \in {c \in ScoreCalls : c.team_stats.ok}
    /\ result = RetNone
    /\ committed = predictions

CalculateScore ==
    /\ result = RetNone
    /\ result' = RetFloat(CalculateTeamScore(score_call.team_stats,
                                             score_call.is_home))
    /\ UNCHANGED <<teams, games, predictions, pred_seq, teams_cache,
                   score_call, committed>>

NextScore == CalculateScore

SpecScore == InitScore /\ [][NextScore]_vars

(***************************************************************************)
(* show_prediction_stats on the predictions tables of ReportTables.        *)
(***************************************************************************)
InitReport ==
    /\ teams = ReportTeams
    /\ games = ReportGames
    /\ predictions \in ReportTables
    /\ pred_seq = MaxReportRows
    /\ teams_cache = <<>>
    /\ score_call = NoCall
    /\ result = RetNone
    /\ committed = predictions

ShowStats ==
    /\ result = RetNone
    /\ result' = ShowPredictionStats(predictions)
    /\ UNCHANGED <<teams, games, predictions, pred_seq, teams_cache,
                   score_call, committed>>

NextReport == ShowStats

SpecReport == InitReport /\ [][NextReport]_vars

\* the calls that write team rows and the cache, with predictions in the
\* store
NextTeams ==
    \/ FetchGamesToday
    \/ FetchRenamed
    \/ FetchUnnamed
    \/ Enrich
    \/ Predict

SpecTeams == Init /\ [][NextTeams]_vars

(***************************************************************************)
(* Properties of ingestion.                                                *)
(***************************************************************************)
StateRank(state) ==
    IF state = "scheduled" THEN 0 ELSE IF state = "live" THEN 1 ELSE 2

\* the step from the unprimed to the primed state is fetch_games_by_date for
\* the date and the response
IsFetch(date, resp) ==
    /\ teams' = FetchGamesByDate(teams, games, date, Epoch, resp).teams
    /\ games' = FetchGamesByDate(teams, games, date, Epoch, resp).games
    /\ UNCHANGED <<predictions, pred_seq, teams_cache, reads>>

\* C1: after fetch_games_by_date has stored a day's payload, a second run
\* with the same payload for the same date leaves the games table as the
\* first run left it: the same rows, none added.
C1_IngestIdempotent ==
    [][\A date \in Dates : \A resp \in Responses(date) :
          IsFetch(date, resp) =>
              FetchGamesByDate(teams', games', date, Epoch, resp).games = games']_vars

\* C2: the stored lifecycle state of a game never moves backwards in the
\* order scheduled < live < final.
C2_StateMonotonic ==
    [][\A g \in (DOMAIN games) \cap (DOMAIN games') :
          StateRank(games'[g].game_state) >= StateRank(games[g].game_state)]_vars

\* C3: every stored final game with both scores has as winner the side with
\* the strictly greater score, and no winner when the scores are equal.
C3_WinnerInvariant ==
    \A g \in DOMAIN games :
        (/\ games[g].game_state = "final"
         /\ games[g].home_score # NULL
         /\ games[g].away_score # NULL)
        => games[g].winner_id =
               IF games[g].home_score > games[g].away_score
               THEN games[g].home_team_id
               ELSE IF games[g].away_score > games[g].home_score
               THEN games[g].away_team_id
               ELSE NULL

\* C4 as claimed: a stored game has a winner if and only if its state is
\* final, and a winner is the game's home team or its away team.
C4_WinnerIffFinal ==
    \A g \in DOMAIN games :
        /\ (games[g].winner_id # NULL) <=> (games[g].game_state = "final")
        /\ games[g].winner_id # NULL
               => games[g].winner_id \in {games[g].home_team_id,
                                          games[g].away_team_id}

\* C4 as amended: a stored game has a winner if and only if its state is
\* final and both its scores are stored, and a winner is the game's home
\* team or its away team.
C4_WinnerIffFinalWithScores ==
    \A g \in DOMAIN games :
        /\ (games[g].winner_id # NULL)
               <=> (/\ games[g].game_state = "final"
                    /\ games[g].home_score # NULL
                    /\ games[g].away_score # NULL)
        /\ games[g].winner_id # NULL
               => games[g].winner_id \in {games[g].home_team_id,
                                          games[g].away_team_id}

\* a final game with a winner next to a final game without scores
C4_Witness ==
    \E g, h \in DOMAIN games :
        /\ games[g].game_state = "final" /\ games[g].winner_id # NULL
        /\ games[h].game_state = "final" /\ games[h].home_score = NULL
        /\ games[h].winner_id = NULL

(***************************************************************************)
(* Properties of prediction.                                               *)
(***************************************************************************)
\* C5: make_prediction, forced or not, on a stored game that is live or
\* final returns None and leaves the predictions table as it is.
C5_NotScheduledNoPrediction ==
    \A g \in DOMAIN games : \A force \in BOOLEAN : \A now \in Clock :
        games[g].game_state # "scheduled"
        => \E r \in {MakePrediction(games, predictions, pred_seq, g, force, now)} :
               /\ r.ret.kind = "none"
               /\ r.predictions = predictions
               /\ r.pred_seq = pred_seq

\* a game that has left the scheduled state and still has its prediction
C5_Witness ==
    \E g \in DOMAIN games :
        /\ games[g].game_state \in {"live", "final"}
        /\ PredictionsOf(predictions, g) # {}
        /\ MakePrediction(games, predictions, pred_seq, g, TRUE, Epoch).ret.kind
               = "none"

\* C6: make_prediction without force on a scheduled game that has a
\* prediction returns None and leaves the predictions table as it is.
C6_DoublePredictionGuard ==
    \A g \in DOMAIN games : \A now \in Clock :
        (games[g].game_state = "scheduled" /\ PredictionsOf(predictions, g) # {})
        => \E r \in {MakePrediction(games, predictions, pred_seq, g, FALSE, now)} :
               /\ r.ret.kind = "none"
               /\ r.predictions = predictions
               /\ r.pred_seq = pred_seq

\* a scheduled game with a prediction whose teams' stats can be computed, so
\* that only the guard keeps a second row out
C6_Witness ==
    \E g \in DOMAIN games :
        /\ games[g].game_state = "scheduled"
        /\ PredictionsOf(predictions, g) # {}
        /\ GetTeamStats(games, games[g].home_team_id).ok
        /\ GetTeamStats(games, games[g].away_team_id).ok
        /\ MakePrediction(games, predictions, pred_seq, g, FALSE, Epoch).ret.kind
               = "none"

\* C7: the predictions table holds at most one row for each game id.
C7_OnePredictionPerGame ==
    \A p \in predictions : \A q \in predictions :
        p.game_id = q.game_id => p = q

\* a prediction put in place of an earlier one by a forced call
C7_Witness ==
    \E p \in predictions :
        /\ p.prediction_id > 1
        /\ PredictionsOf(predictions, p.game_id) = {p}
        /\ Cardinality(predictions) = 1
        /\ pred_seq = p.prediction_id

\* the step is make_prediction(g, force=True) at the clock reading now
IsForcedPrediction(g, now) ==
    /\ predictions' =
           MakePrediction(games, predictions, pred_seq, g, TRUE, now).predictions
    /\ pred_seq' = MakePrediction(games, predictions, pred_seq, g, TRUE, now).pred_seq
    /\ UNCHANGED <<teams, games, teams_cache, reads>>

\* C8: after make_prediction with force on a scheduled game that had a
\* prediction, the game has exactly one prediction, a fresh row: a new
\* prediction id and a NULL correctness flag.
C8_ForcedReprediction ==
    [][\A g \in DOMAIN games : \A now \in Clock :
          (/\ games[g].game_state = "scheduled"
           /\ PredictionsOf(predictions, g) # {}
           /\ IsForcedPrediction(g, now))
          => /\ Cardinality(PredictionsOf(predictions', g)) = 1
             /\ \A q \in PredictionsOf(predictions', g) :
                    /\ q.correct = NULL
                    /\ \A p \in predictions :
                           p.prediction_id # q.prediction_id]_vars

(***************************************************************************)
(* Properties of evaluation.                                               *)
(***************************************************************************)
SameButFlag(p, q) == [p EXCEPT !.correct = NULL] = [q EXCEPT !.correct = NULL]

\* C9: a pass of evaluate_predictions changes nothing but the correctness
\* flag of predictions whose game is final: teams, games and the number of
\* predictions stay, every prediction keeps its other fields, and the flag
\* of a prediction whose game is scheduled or live stays as it is.
C9_EvaluationFrame ==
    [][Evaluate =>
          /\ UNCHANGED <<teams, games, pred_seq>>
          /\ Cardinality(predictions') = Cardinality(predictions)
          /\ \A p \in predictions :
                 \E q \in predictions' :
                     /\ SameButFlag(p, q)
                     /\ q.correct # p.correct
                            => (/\ p.game_id \in DOMAIN games
                                /\ games[p.game_id].game_state = "final")]_vars

\* an evaluated prediction next to one that is not due: its game is not
\* final and its flag is NULL
C9_Witness ==
    \E p, q \in predictions :
        /\ p.correct # NULL
        /\ q.correct = NULL
        /\ games[q.game_id].game_state # "final"

\* C10: after evaluate_predictions every prediction that had a NULL flag
\* and whose game is final has the flag 1 if its predicted winner is the
\* game's stored winner and 0 if not; none of them keeps a NULL flag.
C10_EvaluationResult ==
    [][Evaluate =>
          \A p \in predictions :
              (/\ p.correct = NULL
               /\ p.game_id \in DOMAIN games
               /\ games[p.game_id].game_state = "final")
              => \E q \in predictions' :
                     /\ q.prediction_id = p.prediction_id
                     /\ q.correct =
                            IF p.predicted_winner_id = games[p.game_id].winner_id
                            THEN 1 ELSE 0]_vars

\* a prediction found right and a prediction found wrong
C10_Witness ==
    \E p, q \in predictions :
        /\ p.correct = 1
        /\ games[p.game_id].game_state = "final"
        /\ q.correct = 0

\* C11 as claimed: evaluate_predictions always returns counts: evaluated is
\* the number of predictions with a NULL flag on final games at the call,
\* correct + wrong = evaluated, and 0 evaluated when no prediction is due.
C11_EvaluationCounts ==
    \E r \in {EvaluatePredictions(games, predictions)} :
        /\ r.ret.kind = "dict"
        /\ r.ret.val.evaluated =
               Cardinality(PredictionsToEvaluate(games, predictions))
        /\ r.ret.val.correct + r.ret.val.wrong = r.ret.val.evaluated

\* the step removes a prediction by force: make_prediction or
\* predict_todays_games with force, or clear_predictions
IsForcedOrClear ==
    /\ UNCHANGED <<teams, games>>
    /\ \/ \E g \in 1..(MaxGame + 1), now \in Clock : IsForcedPrediction(g, now)
       \/ \E now \in Clock :
              predictions' = PredictTodaysGames(games, predictions, pred_seq,
                                                TRUE, now).predictions
       \/ \E game_id \in {NULL} \cup 0..(MaxGame + 1) :
              predictions' = ClearPredictionsOf(predictions, game_id)

\* C12: a prediction whose correctness flag is set keeps the flag and every
\* other field through every call; it can only disappear, and only through
\* a forced re-prediction or clear_predictions.
C12_WriteOnce ==
    [][\A p \in predictions :
          (p.correct # NULL /\ p \notin predictions') => IsForcedOrClear]_vars

\* an evaluated prediction that a second evaluation would flag otherwise:
\* found right, and its game now has the other winner
C12_Witness ==
    \E p \in predictions :
        /\ p.correct = 1
        /\ p.game_id \in DOMAIN games
        /\ games[p.game_id].game_state = "final"
        /\ games[p.game_id].winner_id # p.predicted_winner_id

(***************************************************************************)
(* Properties of the team statistics.                                      *)
(***************************************************************************)
\* C13 as claimed: get_team_stats for a team with no stored final game does
\* not raise, and returns the ratios points_percentage, goals_per_game and
\* goals_against_per_game as 0.
C13_ZeroDivisionGuard ==
    \A t \in TeamIds :
        FinalGamesOf(games, t) = {}
        => \E r \in {GetTeamStats(games, t)} :
               /\ r.ok
               /\ r.points_percentage = Frac(0, 1)
               /\ r.goals_per_game = Frac(0, 1)
               /\ r.goals_against_per_game = Frac(0, 1)

\* the final games of a team that it lost after regulation
ExtendedLossesOf(gg, t) ==
    {g \in FinalGamesOf(gg, t) : gg[g].winner_id # t /\ gg[g].win_type # "REG"}

\* C14 as claimed: whenever get_team_stats returns for a team, points is
\* 2 * wins + extended losses, points_percentage is points over twice the
\* number of all its final games (wins, regulation losses and extended
\* losses), and points_percentage is at most 1.
C14_PointsFormula ==
    \A t \in TeamIds :
        \E r \in {GetTeamStats(games, t)} :
            r.ok =>
                /\ r.points = 2 * r.wins + Cardinality(ExtendedLossesOf(games, t))
                /\ r.points_percentage =
                       Frac(r.points,
                            2 * Cardinality(FinalGamesOf(games, t)))
                /\ ~RLess(Frac(1, 1), r.points_percentage)

(***************************************************************************)
(* Properties of the failure paths of ingestion.                           *)
(***************************************************************************)
TransportFailures ==
    {Failure("timeout"), Failure("status"), Failure("neterror")}

\* C15 as claimed: on a timeout, a non-200 status or another network error
\* fetch_games_by_date does not raise, returns None and leaves teams and
\* games as they are; it returns 0 only when the request succeeded.
C15_TransportFailureSentinel ==
    \A date \in Dates : \A resp \in Responses(date) :
        \E r \in {FetchGamesByDate(teams, games, date, Epoch, resp)} :
            /\ resp \in TransportFailures
                   => /\ r.ret.kind = "none"
                      /\ r.teams = teams
                      /\ r.games = games
            /\ r.ret = RetInt(0) => resp.kind = "ok"

\* an entry the loop has to store: not an exhibition game, both team ids
IsStorable(e) ==
    e.gameType # 1 /\ e.homeTeam.id # NULL /\ e.awayTeam.id # NULL

\* the entry at position i is the last one of the payload p under its id
IsLastOfItsId(p, i) ==
    \A j \in (i + 1)..Len(p) : ~(IsStorable(p[j]) /\ p[j].id = p[i].id)

\* C16: for a fetched day, fetch_games_by_date returns a count and does not
\* raise; an entry whose INSERT fails stores no row; every other entry that is
\* not an exhibition game is stored (under its id, or under a fresh key when
\* it has none and no entry after it carries an id); rows of other games
\* stay; and the count is the number of entries stored.
C16_FailureIsolation ==
    \A date \in Dates : \A p \in Payloads :
        \E r \in {FetchGamesByDate(teams, games, date, Epoch,
                                   Document(<<Day(date, p)>>))} :
            /\ r.ret.kind = "int"
            /\ r.ret.val = Cardinality({i \in 1..Len(p) : IsStorable(p[i])})
            /\ \A i \in 1..Len(p) :
                   (IsStorable(p[i]) /\ p[i].id # NULL /\ IsLastOfItsId(p, i))
                   => /\ p[i].id \in DOMAIN r.games
                      /\ r.games[p[i].id] = GameRow(date, p[i])
            /\ \A i \in 1..Len(p) :
                   (/\ IsStorable(p[i]) /\ p[i].id = NULL
                    /\ \A j \in (i + 1)..Len(p) : p[j].id = NULL)
                   => \E k \in (DOMAIN r.games) \ (DOMAIN games) :
                          r.games[k] = GameRow(date, p[i])
            /\ \A k \in DOMAIN r.games :
                   /\ r.games[k].home_team_id # NULL
                   /\ r.games[k].away_team_id # NULL
                   /\ (\A i \in 1..Len(p) : ~(IsStorable(p[i]) /\ p[i].id = k))
                          => \/ k \in DOMAIN games /\ r.games[k] = games[k]
                             \/ /\ k \notin DOMAIN games
                                /\ \E i \in 1..Len(p) :
                                       IsStorable(p[i]) /\ p[i].id = NULL

\* the store after a payload of a malformed entry alone (its away team is
\* stored, its game is not), on which a payload of the malformed entry and a
\* sound one stores the sound one and counts 1
C16_Witness ==
    /\ DOMAIN teams = {2}
    /\ games = <<>>
    /\ \E e \in BatchEntries :
           /\ IsStorable(e) /\ e.id # NULL
           /\ \E r \in {FetchGamesByDate(teams, games, 1, Epoch,
                            Document(<<Day(1, <<MalformedEntry, e>>)>>))} :
                  r.ret = RetInt(1) /\ DOMAIN r.games = {e.id}

(***************************************************************************)
(* Properties of the team rows.                                            *)
(***************************************************************************)
\* C17: no call removes a team row or changes the name or the short code of
\* a team row that exists, whatever name or code a later payload carries for
\* its id.
C17_TeamsInsertIfAbsent ==
    [][\A k \in DOMAIN teams :
          /\ k \in DOMAIN teams'
          /\ teams'[k].team_name = teams[k].team_name
          /\ teams'[k].abbreviation = teams[k].abbreviation]_vars

\* team 1 was first stored under the other code, and a payload that carries
\* its usual code and name was ingested after that (a final game comes from
\* such a payload alone)
C17_Witness ==
    /\ 1 \in DOMAIN teams
    /\ teams[1].abbreviation = RenamedTeam(1).abbrev
    /\ \E g \in DOMAIN games : games[g].game_state = "final"

\* the short codes of the dict entries of a standings list
CodesOf(teams_data) ==
    {GetOr(teams_data[i].teamAbbrev, NoneText, "UNK") :
        i \in {j \in 1..Len(teams_data) : teams_data[j].shape = "dict"}}

\* C18: enrich_teams_with_standings creates and removes no team row, changes
\* no field of a team row but conference and division, changes no row whose
\* short code is not in the payload (so a payload whose codes match no
\* stored team changes nothing), and leaves games and predictions as they
\* are.
C18_EnrichOnlyEnriches ==
    /\ [](\A resp \in StandingsResponses :
            \E r \in {EnrichTeamsWithStandings(teams, teams_cache, resp)} :
                /\ DOMAIN r.teams = DOMAIN teams
                /\ \A k \in DOMAIN teams :
                       /\ r.teams[k].team_name = teams[k].team_name
                       /\ r.teams[k].abbreviation = teams[k].abbreviation
                       /\ r.teams[k] # teams[k]
                              => teams[k].abbreviation \in CodesOf(resp.standings))
    /\ [][Enrich => UNCHANGED <<games, predictions, pred_seq>>]_vars

\* team 1 enriched and team 2 not, after a payload whose code matched no
\* team, with a prediction in the store
C18_Witness ==
    /\ DOMAIN teams = {1, 2}
    /\ teams[1].conference = "Eastern"
    /\ teams[2].conference = NoneText
    /\ "UNK" \in DOMAIN teams_cache
    /\ predictions # {}

(***************************************************************************)
(* Properties of the batch prediction and of the win type.                 *)
(***************************************************************************)
\* C19 as claimed: predict_todays_games does not raise and visits every
\* scheduled game of the day: the predictions made and the games skipped
\* add up to the number of scheduled games stored for the date.
C19_BatchDoesNotAbort ==
    \A force \in BOOLEAN : \A now \in Clock :
        \E r \in {PredictTodaysGames(games, predictions, pred_seq, force, now)} :
            /\ r.ret.kind # "raise"
            /\ r.made + r.skipped =
                   Cardinality(TodaysGames(games, FormatDate(now)))

\* C20 as claimed: every stored game whose state is scheduled or live has no
\* win type.
C20_WinTypeOnlyOnFinal ==
    \A g \in DOMAIN games :
        games[g].game_state \in {"scheduled", "live"}
        => games[g].win_type = NoneText

(***************************************************************************)
(* Properties of the strength score.                                       *)
(***************************************************************************)
\* x held within -b .. b
Within(x, b) ==
    IF RLess(b, x) THEN b
    ELSE IF RLess(x, <<-b[1], b[2]>>) THEN <<-b[1], b[2]>>
    ELSE x

\* points / (2 * games) of a triple of wins, losses and overtime losses
TriplePct(t) ==
    IF t[1] + t[2] + t[3] = 0 THEN Frac(0, 1)
    ELSE Frac(2 * t[1] + t[3], 2 * (t[1] + t[2] + t[3]))

\* points_percentage plus the bonus of the home side
BaseOf(c) ==
    IF c.is_home THEN RAdd(c.team_stats.points_percentage, Frac(8, 100))
    ELSE c.team_stats.points_percentage

\* the score the claim states for the call c
ClaimedScore(c) ==
    RAdd(RAdd(BaseOf(c),
              Within(Frac(c.team_stats.goal_differential, 100), Frac(15, 100))),
         Within(RSub(TriplePct(IF c.is_home THEN c.home ELSE c.away),
                     c.team_stats.points_percentage),
                Frac(10, 100)))

\* C21: _calculate_team_score returns points_percentage, plus 0.08 for the
\* home side only, plus goal_differential / 100 held within +-0.15, plus the
\* venue points percentage (points / (2 * games) of the home or away record,
\* 0 without games) less points_percentage held within +-0.10; so it is
\* within 0.25 of points_percentage plus the bonus.
C21_StrengthScore ==
    result.kind = "float"
    => /\ result.val = ClaimedScore(score_call)
       /\ ~RLess(Frac(25, 100), RAbs(RSub(result.val, BaseOf(score_call))))

\* a home side scored with both terms at their caps and a record of two
\* digits
C21_Witness ==
    /\ result.kind = "float"
    /\ score_call.is_home
    /\ score_call.home[1] > 9
    /\ score_call.team_stats.goal_differential > 15
    /\ result.val = RAdd(BaseOf(score_call), Frac(25, 100))

(***************************************************************************)
(* Properties of the pick.                                                 *)
(***************************************************************************)
\* the strength score of a side of the game g of the store
HomeStrength(g) ==
    CalculateTeamScore(GetTeamStats(games, games[g].home_team_id), TRUE)
AwayStrength(g) ==
    CalculateTeamScore(GetTeamStats(games, games[g].away_team_id), FALSE)

\* the row q is the pick the claim states for the game g
IsClaimedPick(q, g) ==
    /\ q.game_id = g
    /\ q.predicted_winner_id \in {games[g].home_team_id, games[g].away_team_id}
    /\ RLess(AwayStrength(g), HomeStrength(g))
           => q.predicted_winner_id = games[g].home_team_id
    /\ RLess(HomeStrength(g), AwayStrength(g))
           => q.predicted_winner_id = games[g].away_team_id
    /\ q.confidence = RAbs(RSub(HomeStrength(g), AwayStrength(g)))
    /\ ~RLess(q.confidence, Frac(0, 1))
    /\ q.correct = NULL

\* C22: a call of make_prediction that stores a prediction stores one row
\* for the game: its predicted winner is the home or the away team, the side
\* with the higher strength score (home scored with is_home, away without),
\* its confidence is the absolute difference of the two scores, and its
\* correctness flag is NULL.
C22_WinnerPick ==
    \A g \in DOMAIN games : \A force \in BOOLEAN : \A now \in Clock :
        \E r \in {MakePrediction(games, predictions, pred_seq, g, force, now)} :
            r.ret.kind = "dict"
            => /\ Cardinality(PredictionsOf(r.predictions, g)) = 1
               /\ \A q \in PredictionsOf(r.predictions, g) :
                      /\ q \notin predictions
                      /\ IsClaimedPick(q, g)
                      /\ r.ret.val.predicted_winner = q.predicted_winner_id
                      /\ r.ret.val.confidence = q.confidence

\* a stored pick of the away side, which outscored the home side and its
\* bonus, for a game that is still as it was when the pick was made
C22_Witness ==
    \E q \in predictions :
        /\ q.game_id \in DOMAIN games
        /\ games[q.game_id].game_state = "scheduled"
        /\ GetTeamStats(games, games[q.game_id].home_team_id).ok
        /\ GetTeamStats(games, games[q.game_id].away_team_id).ok
        /\ IsClaimedPick(q, q.game_id)
        /\ q.predicted_winner_id = games[q.game_id].away_team_id
        /\ RLess(Frac(0, 1), q.confidence)

(***************************************************************************)
(* Properties of the report.                                               *)
(***************************************************************************)
\* the evaluated predictions the claim puts in a bucket
ClaimedLow ==
    {p \in predictions : p.correct # NULL /\ RLess(p.confidence, Frac(30, 100))}
ClaimedMedium ==
    {p \in predictions : /\ p.correct # NULL
                         /\ ~RLess(p.confidence, Frac(30, 100))
                         /\ RLess(p.confidence, Frac(60, 100))}
ClaimedHigh ==
    {p \in predictions : p.correct # NULL /\ ~RLess(p.confidence, Frac(60, 100))}

RightOnes(rows) == Cardinality({p \in rows : p.correct = 1})

\* C23: show_prediction_stats counts each evaluated prediction in one
\* bucket: low when confidence < 0.30, medium when 0.30 <= confidence < 0.60,
\* high when confidence >= 0.60; the totals of the buckets add up to the
\* overall total and their correct counts to the overall correct count; a
\* prediction with a NULL flag is counted nowhere.
C23_ConfidenceBuckets ==
    result.kind = "dict"
    => /\ result.val.by_confidence.low =
              [total |-> Cardinality(ClaimedLow), correct |-> RightOnes(ClaimedLow)]
       /\ result.val.by_confidence.medium =
              [total |-> Cardinality(ClaimedMedium),
               correct |-> RightOnes(ClaimedMedium)]
       /\ result.val.by_confidence.high =
              [total |-> Cardinality(ClaimedHigh),
               correct |-> RightOnes(ClaimedHigh)]
       /\ result.val.total =
              Cardinality({p \in predictions : p.correct # NULL})
       /\ result.val.total =
              result.val.by_confidence.low.total
              + result.val.by_confidence.medium.total
              + result.val.by_confidence.high.total
       /\ result.val.correct =
              result.val.by_confidence.low.correct
              + result.val.by_confidence.medium.correct
              + result.val.by_confidence.high.correct

\* the report of three evaluated predictions of confidence 0.10 (wrong),
\* 0.45 (right) and 0.75 (right)
C23_Witness ==
    /\ result.kind = "dict"
    /\ {<<p.confidence, p.correct>> : p \in predictions} =
           {<<Frac(10, 100), 0>>, <<Frac(45, 100), 1>>, <<Frac(75, 100), 1>>}
    /\ result.val.by_confidence =
           [low |-> [total |-> 1, correct |-> 0],
            medium |-> [total |-> 1, correct |-> 1],
            high |-> [total |-> 1, correct |-> 1]]
    /\ result.val.total = 3
    /\ result.val.correct = 2

(***************************************************************************)
(* Properties of the cache.                                                *)
(***************************************************************************)
\* the cache entry c carries what the standings entry e says
CarriesStandings(c, e) ==
    /\ c.conference = GetOr(e.conferenceName, NoneText, "Unknown")
    /\ c.division = GetOr(e.divisionName, NoneText, "Unknown")
    /\ c.wins = GetOr(e.wins, NULL, 0)
    /\ c.losses = GetOr(e.losses, NULL, 0)
    /\ c.ot_losses = GetOr(e.otLosses, NULL, 0)
    /\ c.points = GetOr(e.points, NULL, 0)

\* C24 as claimed: after a successful enrich_teams_with_standings the cache
\* has, for every short code of the payload, an entry with the payload's
\* conference, division and record and with the id and the name of the
\* stored team row of that code (no id only when no such row is stored); and
\* no entry has left the cache.
C24_CacheAgreesWithStore ==
    \A resp \in StandingsResponses :
        \E r \in {EnrichTeamsWithStandings(teams, teams_cache, resp)} :
            resp.kind = "ok"
            => /\ DOMAIN teams_cache \subseteq DOMAIN r.teams_cache
               /\ \A i \in 1..Len(resp.standings) :
                      resp.standings[i].shape = "dict"
                      => \E code \in {GetOr(resp.standings[i].teamAbbrev,
                                            NoneText, "UNK")} :
                             /\ code \in DOMAIN r.teams_cache
                             /\ CarriesStandings(r.teams_cache[code],
                                                 resp.standings[i])
                             /\ r.teams_cache[code].id
                                    = SelectTeam(r.teams, code).id
                             /\ r.teams_cache[code].name
                                    = SelectTeam(r.teams, code).name

\* the step is a forced make_prediction of game g that raises
IsFailedForcedPrediction(g, now) ==
    /\ IsForcedPrediction(g, now)
    /\ MakePrediction(games, predictions, pred_seq, g, TRUE, now).ret.kind
           = "raise"

\* the connection sees the rows of game g that it saw before the step
KeepsRowsOf(g) == PredictionsOf(predictions', g) = PredictionsOf(predictions, g)

\* the step is a clear_predictions that covers game g
IsClearCovering(g) ==
    \E game_id \in {NULL} \cup 0..(MaxGame + 1) :
        /\ predictions' = ClearPredictionsOf(predictions, game_id)
        /\ PredictionsOf(ClearPredictionsOf(committed, game_id), g) = {}

\* a step that commits leaves a game without a committed row only when it
\* is a clear_predictions covering the game
RowsLeaveOnlyByClear ==
    \A p \in committed :
        PredictionsOf(committed', p.game_id) = {}
        => IsClearCovering(p.game_id)

\* C25 as claimed: a forced make_prediction on a scheduled game that has a
\* prediction and that raises before its commit leaves the game's prior row
\* in place, for the connection at once and in the database file after the
\* next commit of any operation: the game never ends with zero prediction
\* rows unless clear_predictions removed them.
C25_ForcedAllOrNothing ==
    [][/\ \A g \in DOMAIN games : \A now \in Clock :
              (/\ games[g].game_state = "scheduled"
               /\ PredictionsOf(predictions, g) # {}
               /\ IsFailedForcedPrediction(g, now))
              => KeepsRowsOf(g)
       /\ RowsLeaveOnlyByClear]_vars

\* the ids of the stored teams
StoredTeams == DOMAIN teams

\* C26 as claimed: every stored game's home team, away team and non-null
\* winner are rows of the teams table, and every prediction's game is a
\* stored game and its predicted winner a stored team.
C26_ReferentialIntegrity ==
    /\ \A g \in DOMAIN games :
           /\ games[g].home_team_id \in StoredTeams
           /\ games[g].away_team_id \in StoredTeams
           /\ games[g].winner_id # NULL => games[g].winner_id \in StoredTeams
    /\ \A p \in predictions :
           /\ p.game_id \in DOMAIN games
           /\ p.predicted_winner_id \in StoredTeams

====
